---- MODULE Spec2Model ----
(***************************************************************************)
(* Model of the survey classification service: src/app.py (the Flask and   *)
(* Socket.IO handlers over the in-memory history user_responses) and       *)
(* src/ai_classifier_service.py (payload construction, the call to the     *)
(* LLM endpoint, extraction and pydantic validation of the model output).  *)
(*                                                                         *)
(* Each HTTP request and each Socket.IO event runs in its own thread, so a *)
(* handler is a sequence of steps, one per statement that touches the      *)
(* shared globals user_responses / current_question or blocks on the LLM;  *)
(* steps of different handlers interleave freely.                          *)
(***************************************************************************)
EXTENDS Integers, Sequences, FiniteSets, TLC

\* ------------------------------------------------------------------ bounds
MaxRequests == 2      \* classification requests issued in one run
MaxTime     == 0      \* time.time() returns a value in 0..MaxTime
MaxLen      == 2      \* characters in an answer given to the prompt builder

Reqs     == 1..MaxRequests
Workers  == {"w1", "w2"}     \* threads that serve POST /classify
Sessions == {"browser"}      \* the session that sends the admin events
Times    == 0..MaxTime

\* ------------------------------------------------- JSON values (tagged)
\* A JSON value as json.loads / request.get_json deliver it.  Numbers are
\* kept in tenths (5 is 0.5, 10 is 1.0, 15 is 1.5).
JAbsent  == [t |-> "absent", s |-> "", n |-> 0]
JNull    == [t |-> "null",   s |-> "", n |-> 0]
JStr(x)  == [t |-> "str",    s |-> x,  n |-> 0]
JNum(x)  == [t |-> "num",    s |-> "", n |-> x]
JBool(b) == [t |-> "bool",   s |-> "", n |-> IF b THEN 1 ELSE 0]
JList    == [t |-> "list",   s |-> "", n |-> 0]

\* ---------------------------------------------------------- app.py globals
ADMIN_USERNAME == "admin"
ADMIN_PASSWORD == "admin123"
DefaultQuestion ==
  "What is your primary learning objective regarding the use of AI in medicine?"

\* Category names the LLM may answer with, listed in Python's string order.
CategoryOrder == <<"Oncology", "Radiology Applications">>
Categories    == {CategoryOrder[i] : i \in 1..Len(CategoryOrder)}

VARIABLES
  GEMINI_API_KEY,    \* TRUE iff the environment variable is set
  user_responses,    \* the shared history (a list of records)
  current_question,  \* the active survey question
  logged_in,         \* session -> session['logged_in']
  admin_pc,          \* session -> position inside a Socket.IO handler
  broadcast,         \* the last state_update sent to all clients
  pc,                \* request -> position inside classify_objective
  frame,             \* request -> the locals of the handler (see NoFrame)
  outcome,           \* request -> HTTP response returned to the caller
  appends,           \* request -> number of records it has appended
  prompt             \* the prompt builder run on texts spelled out in characters

vars == <<GEMINI_API_KEY, user_responses, current_question, logged_in,
          admin_pc, broadcast, pc, frame, outcome, appends, prompt>>

reqVars   == <<pc, frame, outcome, appends>>
adminVars == <<logged_in, admin_pc>>

\* ------------------------------------------------------------ input sets
\* The 'answer' member of the posted JSON body: absent (no body, empty
\* body or no such key), the empty string, a text, a number, a list.
AllAnswers == {JAbsent, JStr(""), JStr("learn how AI reads CT scans"), JNum(4), JList}
\* The answers posted when requests run concurrently.
Answers == {JAbsent, JStr("learn how AI reads CT scans")}

\* The question texts an admin may send with set_question ("" and absent
\* are both falsy for `if question_text`).
QuestionInputs == {JAbsent, JStr(""), JStr("What is your main goal?")}

Usernames == {ADMIN_USERNAME, "guest"}
Passwords == {ADMIN_PASSWORD, "letmein"}

\* The JSON text the model embeds at candidates[0].content.parts[0].text,
\* as json.loads sees it: the empty string, text that is not JSON, JSON that
\* is not an object, or an object with (some of) the three fields.
Text(f, d, c, j) ==
  [form |-> f, primaryDomain |-> d, confidenceScore |-> c, justification |-> j]
EmptyText     == Text("empty", JAbsent, JAbsent, JAbsent)
MalformedText == Text("malformed", JAbsent, JAbsent, JAbsent)
ArrayText     == Text("array", JAbsent, JAbsent, JAbsent)
Object(d, c, j) == Text("object", d, c, j)
EmptyObject   == Object(JAbsent, JAbsent, JAbsent)      \* the text '{}'

\* What requests.post / response.json() deliver.
Envelope(k, txt) == [kind |-> k, text |-> txt]
TransportError  == Envelope("transport_error", EmptyText)
NoCandidatesKey == Envelope("no_candidates_key", EmptyText)
EmptyCandidates == Envelope("empty_candidates", EmptyText)
Candidate(txt)  == Envelope("candidate", txt)

Justification == "Mentions tumor segmentation in CT scans."

\* Values a field of the model's object may carry.
DomainValues  == {JStr(c) : c \in Categories} \cup {JAbsent, JNull, JNum(7)}
ScoreValues   == {JNum(-1), JNum(0), JNum(5), JNum(10), JNum(15),
                  JStr("0.5"), JStr("1.5"), JStr("high"),
                  JBool(TRUE), JBool(FALSE), JNull, JAbsent}
JustifyValues == {JStr(Justification), JAbsent, JNull, JNum(7)}

AllTexts ==
  {EmptyText, MalformedText, ArrayText} \cup
  {Object(d, c, j) : d \in DomainValues, c \in ScoreValues, j \in JustifyValues}
AllEnvelopes ==
  {TransportError, NoCandidatesKey, EmptyCandidates} \cup
  {Candidate(t) : t \in AllTexts}

\* The answers of the LLM endpoint used when requests run concurrently.
Responses ==
  {TransportError, EmptyCandidates, Candidate(EmptyText), Candidate(MalformedText),
   Candidate(Object(JStr("Oncology"), JNum(15), JStr(Justification)))} \cup
  {Candidate(Object(JStr(c), JNum(9), JStr(Justification))) : c \in Categories}

\* ------------------------------------------- ai_classifier_service.py
NoResult == [primaryDomain |-> "", confidenceScore |-> 0, justification |-> ""]
NoExc    == [type |-> "", msg |-> ""]

\* pydantic (v2, default lax mode) validation of a `str` field: a string
\* only; numbers, booleans, null and a missing key are errors.
StrField(v) == [ok |-> v.t = "str", val |-> IF v.t = "str" THEN v.s ELSE ""]

\* float(text) for the texts of the model: numeric text parses.
NumericTexts == {"0.5", "1.5"}
StrAsFloat(x) == CASE x = "0.5" -> 5 [] x = "1.5" -> 15 [] OTHER -> 0

\* (variant) the float field without ge / le.
FloatField_NoBounds(v) ==
  CASE v.t = "num"  -> [ok |-> TRUE, val |-> v.n]
    [] v.t = "str"  -> [ok |-> v.s \in NumericTexts, val |-> StrAsFloat(v.s)]
    [] v.t = "bool" -> [ok |-> TRUE, val |-> 10 * v.n]
    [] OTHER        -> [ok |-> FALSE, val |-> 0]

\* pydantic (v2, lax) validation of `float = Field(..., ge=0.0, le=1.0)`:
\* a number is taken as is, numeric text is parsed, a boolean becomes
\* 1.0 / 0.0; then the bounds are checked.
FloatField(v) ==
  LET lax == CASE v.t = "num"  -> [ok |-> TRUE, val |-> v.n]
               [] v.t = "str"  -> [ok |-> v.s \in NumericTexts, val |-> StrAsFloat(v.s)]
               [] v.t = "bool" -> [ok |-> TRUE, val |-> 10 * v.n]
               [] OTHER        -> [ok |-> FALSE, val |-> 0]
  IN [ok |-> lax.ok /\ lax.val >= 0 /\ lax.val <= 10, val |-> lax.val]

\* ClassificationResult(**model_output_data)
ClassificationResult(obj) ==
  LET d == StrField(obj.primaryDomain)
      c == FloatField(obj.confidenceScore)
      j == StrField(obj.justification)
  IN IF d.ok /\ c.ok /\ j.ok
     THEN [ok |-> TRUE, exc |-> NoExc,
           value |-> [primaryDomain |-> d.val, confidenceScore |-> c.val,
                      justification |-> j.val]]
     ELSE [ok |-> FALSE, exc |-> [type |-> "ValidationError", msg |-> ""],
           value |-> NoResult]

\* ClassificationResult.model_json_schema(): pydantic builds a new dict on
\* every call; the properties come in declaration order (Python dicts keep
\* insertion order), each with its JSON-schema type in lower case and the
\* ge / le bounds of the field (in tenths).
Property(n, ty, lim) == [name |-> n, type |-> ty, limits |-> lim]
model_json_schema ==
  [type       |-> "object",
   title      |-> "ClassificationResult",
   properties |-> <<Property("primaryDomain", "string", <<>>),
                    Property("confidenceScore", "number", <<0, 10>>),
                    Property("justification", "string", <<>>)>>,
   required   |-> <<"primaryDomain", "confidenceScore", "justification">>]

\* (variant) the type tags are left as pydantic gives them.
upper_AsIs(x) == x

\* str.upper() on the type tags.
upper(x) ==
  CASE x = "object" -> "OBJECT"
    [] x = "string" -> "STRING"
    [] x = "number" -> "NUMBER"
    [] OTHER        -> x

\* get_response_schema(): 'type' of the schema and of every property is
\* upper-cased and propertyOrdering lists the keys of 'properties'.
get_response_schema ==
  LET schema == model_json_schema
      props  == [i \in 1..Len(schema.properties) |->
                   [schema.properties[i] EXCEPT !.type = upper(@)]]
  IN [type             |-> upper(schema.type),
      title            |-> schema.title,
      properties       |-> props,
      required         |-> schema.required,
      propertyOrdering |-> [i \in 1..Len(props) |-> props[i].name]]
NoSchema ==
  [type |-> "", title |-> "", properties |-> <<>>, required |-> <<>>,
   propertyOrdering |-> <<>>]

\* ----------------------------------------------------- json.dumps / loads
\* A text is a sequence of characters.  DQ is the double quote, BS the
\* backslash, LF the newline, SP the space, EACUTE the letter U+00E9.
DQ     == "\""
BS     == "\\"
LF     == "LF"
SP     == " "
EACUTE == "U+00E9"

RECURSIVE Flatten(_)
Flatten(ss) == IF ss = <<>> THEN <<>> ELSE Head(ss) \o Flatten(Tail(ss))

\* (variant) the characters are written as they are.
encode_basestring_ascii_Raw(c) == <<c>>

\* json.dumps with ensure_ascii (the default): what one character of a
\* string becomes inside the quotes.
encode_basestring_ascii(c) ==
  CASE c = DQ     -> <<BS, DQ>>
    [] c = BS     -> <<BS, BS>>
    [] c = LF     -> <<BS, "n">>
    [] c = EACUTE -> <<BS, "u", "0", "0", "e", "9">>
    [] OTHER      -> <<c>>

dumps_str(str) ==
  <<DQ>> \o Flatten([i \in 1..Len(str) |-> encode_basestring_ascii(str[i])]) \o <<DQ>>

\* The newline and the indentation of nesting level n (indent=2).
Indent(n) == <<LF>> \o [i \in 1..(2 * n) |-> SP]

\* A list of strings at nesting level 1.
dumps_list(list) ==
  IF list = <<>> THEN <<"[", "]">>
  ELSE <<"[">>
       \o Flatten([i \in 1..Len(list) |->
              Indent(2) \o dumps_str(list[i])
              \o (IF i < Len(list) THEN <<",">> ELSE <<>>)])
       \o Indent(1) \o <<"]">>

KeyUserAnswer == <<"u", "s", "e", "r", "_", "a", "n", "s", "w", "e", "r">>
KeyQuestion   == <<"q", "u", "e", "s", "t", "i", "o", "n">>
KeyCategories == <<"e", "x", "i", "s", "t", "i", "n", "g", "_",
                   "c", "a", "t", "e", "g", "o", "r", "i", "e", "s">>

\* json.dumps({"user_answer": ..., "question": ..., "existing_categories":
\* ...}, indent=2)
user_prompt(objective, question, existing_categories) ==
  <<"{">>
  \o Indent(1) \o dumps_str(KeyUserAnswer) \o <<":", SP>> \o dumps_str(objective) \o <<",">>
  \o Indent(1) \o dumps_str(KeyQuestion) \o <<":", SP>> \o dumps_str(question) \o <<",">>
  \o Indent(1) \o dumps_str(KeyCategories) \o <<":", SP>> \o dumps_list(existing_categories)
  \o Indent(0) \o <<"}">>

\* json.loads: the scanner's answer is the value and the place after it,
\* or an error (JSONDecodeError).
Scanned(v, n) == [ok |-> TRUE, val |-> v, next |-> n]
ScanError     == [ok |-> FALSE, val |-> <<>>, next |-> 0]

RECURSIVE SkipWhitespace(_, _)
SkipWhitespace(t, i) ==
  IF i <= Len(t) /\ t[i] \in {SP, LF} THEN SkipWhitespace(t, i + 1) ELSE i

\* The characters of a string from place i (after the opening quote) up to
\* the closing quote; a backslash starts an escape; a raw control
\* character is an error.
RECURSIVE scanstring(_, _, _)
scanstring(t, i, acc) ==
  IF i > Len(t) THEN ScanError
  ELSE IF t[i] = DQ THEN Scanned(acc, i + 1)
  ELSE IF t[i] = LF THEN ScanError
  ELSE IF t[i] # BS THEN scanstring(t, i + 1, Append(acc, t[i]))
  ELSE IF i + 1 > Len(t) THEN ScanError
  ELSE IF t[i + 1] = DQ THEN scanstring(t, i + 2, Append(acc, DQ))
  ELSE IF t[i + 1] = BS THEN scanstring(t, i + 2, Append(acc, BS))
  ELSE IF t[i + 1] = "n" THEN scanstring(t, i + 2, Append(acc, LF))
  ELSE IF t[i + 1] = "u" /\ i + 5 <= Len(t)
          /\ SubSeq(t, i + 2, i + 5) = <<"0", "0", "e", "9">>
       THEN scanstring(t, i + 6, Append(acc, EACUTE))
  ELSE ScanError

\* A string value at place i.
scan_str(t, i) ==
  IF i <= Len(t) /\ t[i] = DQ THEN scanstring(t, i + 1, <<>>) ELSE ScanError

\* The elements of an array of strings from place i (after "[" or ",").
RECURSIVE scan_array(_, _, _)
scan_array(t, i, acc) ==
  LET j == SkipWhitespace(t, i)
  IN IF j > Len(t) THEN ScanError
     ELSE IF t[j] = "]" /\ acc = <<>> THEN Scanned(acc, j + 1)
     ELSE LET e == scan_str(t, j)
              k == SkipWhitespace(t, e.next)
          IN IF ~e.ok \/ k > Len(t) THEN ScanError
             ELSE IF t[k] = "," THEN scan_array(t, k + 1, Append(acc, e.val))
             ELSE IF t[k] = "]" THEN Scanned(Append(acc, e.val), k + 1)
             ELSE ScanError

\* A value: a string or an array of strings.
scan_value(t, i) ==
  IF i > Len(t) THEN ScanError
  ELSE IF t[i] = "[" THEN scan_array(t, i + 1, <<>>)
  ELSE scan_str(t, i)

\* The members of an object from place i (after "{" or ","): a sequence
\* of <<key, value>>.
RECURSIVE scan_object(_, _, _)
scan_object(t, i, acc) ==
  LET j  == SkipWhitespace(t, i)
      ky == scan_str(t, j)
      c  == SkipWhitespace(t, ky.next)
  IN IF ~ky.ok \/ c > Len(t) \/ t[c] # ":" THEN ScanError
     ELSE LET v == scan_value(t, SkipWhitespace(t, c + 1))
              k == SkipWhitespace(t, v.next)
          IN IF ~v.ok \/ k > Len(t) THEN ScanError
             ELSE IF t[k] = "," THEN scan_object(t, k + 1, Append(acc, <<ky.val, v.val>>))
             ELSE IF t[k] = "}" THEN Scanned(Append(acc, <<ky.val, v.val>>), k + 1)
             ELSE ScanError

\* json.loads(text) for a text that holds one object: the members by key,
\* or an error when the text is not JSON or goes on after the object.
Member(members, key) ==
  LET at == {i \in 1..Len(members) : members[i][1] = key}
  IN IF at = {} THEN <<>> ELSE members[CHOOSE i \in at : \A j \in at : j <= i][2]
json_loads(t) ==
  LET i == SkipWhitespace(t, 1)
      o == IF i <= Len(t) /\ t[i] = "{" THEN scan_object(t, i + 1, <<>>) ELSE ScanError
  IN IF o.ok /\ SkipWhitespace(t, o.next) = Len(t) + 1
     THEN [ok |-> TRUE, keys |-> [n \in 1..Len(o.val) |-> o.val[n][1]],
           user_answer |-> Member(o.val, KeyUserAnswer),
           question |-> Member(o.val, KeyQuestion),
           existing_categories |-> Member(o.val, KeyCategories)]
     ELSE [ok |-> FALSE, keys |-> <<>>, user_answer |-> <<>>, question |-> <<>>,
           existing_categories |-> <<>>]

\* ClassificationRequest(answer=objective): answer must be a str.
ClassificationRequest(objective) == objective.t = "str"

\* get_gemini_api_payload: the context block, or ValueError.
get_gemini_api_payload(objective, question, cats) ==
  IF ClassificationRequest(objective)
  THEN [ok |-> TRUE, exc |-> NoExc,
        value |-> [user_answer |-> objective.s, question |-> question,
                   existing_categories |-> cats,
                   responseSchema |-> get_response_schema]]
  ELSE [ok |-> FALSE, exc |-> [type |-> "ValueError", msg |-> "Invalid objective format."],
        value |-> [user_answer |-> "", question |-> "", existing_categories |-> <<>>,
                   responseSchema |-> NoSchema]]

\* classify_learning_objective from the return of requests.post on: the
\* exception that leaves the function, or the validated result.
Fail(ty, m) == [ok |-> FALSE, exc |-> [type |-> ty, msg |-> m], value |-> NoResult]
classify_learning_objective(env) ==
  IF env.kind = "transport_error"
  THEN Fail("RuntimeError", "Failed to communicate with the AI service")
  ELSE IF env.kind = "empty_candidates"
  THEN Fail("IndexError", "list index out of range")
  ELSE LET json_string == IF env.kind = "no_candidates_key" THEN EmptyObject ELSE env.text
       IN IF json_string.form = "empty" \/ json_string = EmptyObject
          THEN Fail("RuntimeError", "AI model did not return valid classification content.")
          ELSE IF json_string.form = "malformed"
          THEN Fail("JSONDecodeError", "")
          ELSE IF json_string.form = "array"
          THEN Fail("TypeError", "argument after ** must be a mapping")
          ELSE LET r == ClassificationResult(json_string)
               IN IF r.ok THEN r
                  ELSE Fail("RuntimeError", "AI output failed schema validation.")

\* ------------------------------------------------------------- app.py
Http(st, err) == [status |-> st, error |-> err]
NoOutcome == Http(0, "")

\* The except clauses of classify_objective.
HandleException(exc) ==
  CASE exc.type = "ValidationError" -> Http(422, "Data validation failed")
    [] exc.type = "RuntimeError" ->
         Http(500, "AI classification failed due to internal schema mismatch.")
    [] OTHER -> Http(500, "An internal server error occurred.")

\* (variant) the category list is taken from a copy of the history made
\* before its newest record.
ExistingCategories_Stale(history) ==
  LET old   == SubSeq(history, 1, Len(history) - 1)
      names == {old[i].classification.primaryDomain : i \in 1..Len(old)}
  IN SelectSeq(CategoryOrder, LAMBDA c : c \in names)

\* sorted(list(set(res['classification']['primaryDomain'] for res in ...)))
ExistingCategories(history) ==
  LET names == {history[i].classification.primaryDomain : i \in 1..Len(history)}
  IN SelectSeq(CategoryOrder, LAMBDA c : c \in names)

NoRecord == [id |-> 0, userId |-> "", answer |-> "", classification |-> NoResult,
             timestamp |-> 0]
NoPayload == [user_answer |-> "", question |-> "", existing_categories |-> <<>>,
              responseSchema |-> NoSchema]
StateUpdate(q, rs) == [question |-> q, responses |-> rs]
NoBroadcast == StateUpdate("", <<>>)
NoEnvelope  == Envelope("none", EmptyText)

\* The locals of one run of classify_objective: the posted answer, the
\* category list, the payload posted to the LLM, the endpoint's answer, the
\* validated result, the record being built and the exception raised.
NoFrame ==
  [data |-> JAbsent, existing_categories |-> <<>>, payload |-> NoPayload,
   response |-> NoEnvelope, classification_result |-> NoResult,
   new_response |-> NoRecord, raised |-> NoExc]

\* One run of the prompt builder on texts given character by character:
\* the arguments, the context block built from them and what a reader of
\* the block gets back.
NoParsed ==
  [ok |-> FALSE, keys |-> <<>>, user_answer |-> <<>>, question |-> <<>>,
   existing_categories |-> <<>>]
NoPrompt ==
  [stage |-> "none", objective |-> <<>>, question |-> <<>>,
   existing_categories |-> <<>>, text |-> <<>>, parsed |-> NoParsed]

\* The characters of the texts: letters, the two characters JSON escapes
\* with a backslash, a control character and a non-ASCII letter.
Alphabet   == {"a", "n", "u", DQ, BS, LF, EACUTE}
Strings(n) == UNION {[1..k -> Alphabet] : k \in 0..n}
\* Non-empty answers; question texts; category names in Python's string
\* order (by code point), of which a snapshot holds some, each once.
PromptAnswers   == Strings(MaxLen) \ {<<>>}
PromptQuestions == Strings(1)
CategoryPool    == << <<DQ>>, <<"a", BS>>, <<EACUTE, LF>> >>
Snapshots ==
  {SelectSeq(CategoryPool, LAMBDA c : c \in S) :
     S \in SUBSET {CategoryPool[i] : i \in 1..Len(CategoryPool)}}

\* ---------------------------------------------------------------- Init
Init ==
  /\ GEMINI_API_KEY \in BOOLEAN
  /\ user_responses = <<>>
  /\ current_question = DefaultQuestion
  /\ logged_in = [s \in Sessions |-> FALSE]
  /\ admin_pc = [s \in Sessions |-> "idle"]
  /\ broadcast = NoBroadcast
  /\ pc = [r \in Reqs |-> "idle"]
  /\ frame = [r \in Reqs |-> NoFrame]
  /\ outcome = [r \in Reqs |-> NoOutcome]
  /\ appends = [r \in Reqs |-> 0]
  /\ prompt = NoPrompt

\* ------------------------------------------ POST /classify, step by step
\* Every step takes `keep`.  With keep = FALSE a local that no later
\* statement of the handler reads is dropped (none is left when the handler
\* returns); with keep = TRUE the locals stay for inspection.
LiveAt ==
  [read     |-> {"data"},
   call     |-> {"data", "existing_categories"},
   awaiting |-> {"data", "payload"},
   build    |-> {"data", "classification_result"},
   append   |-> {"classification_result", "new_response"},
   emit     |-> {"classification_result"},
   done     |-> {}]

Live(next, f, keep) ==
  IF keep THEN f
  ELSE [v \in DOMAIN NoFrame |-> IF v \in LiveAt[next] THEN f[v] ELSE NoFrame[v]]

\* The handler goes on to the step `next` with the locals f.
Goto(r, next, f, keep) ==
  /\ pc' = [pc EXCEPT ![r] = next]
  /\ frame' = [frame EXCEPT ![r] = Live(next, f, keep)]
  /\ UNCHANGED outcome

\* The handler returns the HTTP response `http`.
Return(r, http, f, keep) ==
  /\ pc' = [pc EXCEPT ![r] = "done"]
  /\ outcome' = [outcome EXCEPT ![r] = http]
  /\ frame' = [frame EXCEPT ![r] = Live("done", f, keep)]

\* An exception leaves the try block and an except clause answers.
Except(r, exc, f, keep) ==
  Return(r, HandleException(exc), [f EXCEPT !.raised = exc], keep)

\* Lines 116-127: the API key check, request.get_json(), the 'answer'
\* check and objective[:40] (which raises TypeError unless the answer can
\* be sliced).  Requests are numbered in the order they arrive; one is
\* taken up when a worker thread is free.
Receive(r, answer, keep) ==
  /\ pc[r] = "idle"
  /\ \A q \in Reqs : q < r => pc[q] # "idle"
  /\ Cardinality({q \in Reqs : pc[q] \notin {"idle", "done"}}) < Cardinality(Workers)
  /\ LET f == [frame[r] EXCEPT !.data = answer]
     IN IF ~GEMINI_API_KEY
        THEN Return(r, Http(500, "Server is not configured for AI classification."), f, keep)
        ELSE IF answer.t = "absent"
        THEN Return(r, Http(400, "Missing required field 'answer'"), f, keep)
        ELSE IF answer.t \notin {"str", "list"}
        THEN Except(r, [type |-> "TypeError", msg |-> "object is not subscriptable"], f, keep)
        ELSE Goto(r, "read", f, keep)
  /\ UNCHANGED <<GEMINI_API_KEY, prompt, user_responses, current_question, adminVars,
                 broadcast, appends>>

\* (variant) the read waits until no other request is between its own
\* read and its append.
ReadTaxonomy_Locked(r, keep) ==
  /\ pc[r] = "read"
  /\ \A q \in Reqs \ {r} : pc[q] \notin {"call", "awaiting", "build", "append"}
  /\ Goto(r, "call", [frame[r] EXCEPT
        !.existing_categories = ExistingCategories(user_responses)], keep)
  /\ UNCHANGED <<GEMINI_API_KEY, prompt, user_responses, current_question, adminVars,
                 broadcast, appends>>

\* Lines 130-132: the category list is computed from the history.
ReadTaxonomy(r, keep) ==
  /\ pc[r] = "read"
  /\ Goto(r, "call", [frame[r] EXCEPT
        !.existing_categories = ExistingCategories(user_responses)], keep)
  /\ UNCHANGED <<GEMINI_API_KEY, prompt, user_responses, current_question, adminVars,
                 broadcast, appends>>

\* Line 135 up to requests.post (service lines 117-122): current_question
\* is read, the payload is built and posted to the LLM endpoint.
CallLLM(r, keep) ==
  /\ pc[r] = "call"
  /\ LET p == get_gemini_api_payload(frame[r].data, current_question,
                                     frame[r].existing_categories)
     IN IF p.ok
        THEN Goto(r, "awaiting", [frame[r] EXCEPT !.payload = p.value], keep)
        ELSE Except(r, p.exc, frame[r], keep)
  /\ UNCHANGED <<GEMINI_API_KEY, prompt, user_responses, current_question, adminVars,
                 broadcast, appends>>

\* (variant) the category name is normalised before it is stored.
NewResponse_Renames(history, objective, result, now) ==
  [id |-> Len(history) + 1, userId |-> "anonymous", answer |-> objective,
   classification |-> [result EXCEPT !.primaryDomain = "oncology"], timestamp |-> now]

\* Lines 138-144: the record is built; its id reads len(user_responses).
NewResponse(history, objective, result, now) ==
  [id |-> Len(history) + 1, userId |-> "anonymous", answer |-> objective,
   classification |-> result, timestamp |-> now]

\* (variant) the record is appended as soon as the endpoint has answered,
\* before the answer is validated.
Respond_AppendsFirst(r, env, keep) ==
  /\ pc[r] = "awaiting"
  /\ LET res == classify_learning_objective(env)
         f   == [frame[r] EXCEPT !.response = env]
     IN /\ user_responses' = Append(user_responses,
              NewResponse(user_responses, frame[r].data.s, res.value, 0))
        /\ appends' = [appends EXCEPT ![r] = @ + 1]
        /\ IF res.ok
           THEN Goto(r, "emit", [f EXCEPT !.classification_result = res.value], keep)
           ELSE Except(r, res.exc, f, keep)
  /\ UNCHANGED <<GEMINI_API_KEY, prompt, current_question, adminVars, broadcast>>

\* The endpoint answers (service lines 122-149, app lines 152-165).
Respond(r, env, keep) ==
  /\ pc[r] = "awaiting"
  /\ LET res == classify_learning_objective(env)
         f   == [frame[r] EXCEPT !.response = env]
     IN IF res.ok
        THEN Goto(r, "build", [f EXCEPT !.classification_result = res.value], keep)
        ELSE Except(r, res.exc, f, keep)
  /\ UNCHANGED <<GEMINI_API_KEY, prompt, user_responses, current_question, adminVars,
                 broadcast, appends>>

\* Lines 138-144.
BuildRecord(r, now, keep) ==
  /\ pc[r] = "build"
  /\ Goto(r, "append", [frame[r] EXCEPT !.new_response =
        NewResponse(user_responses, frame[r].data.s,
                    frame[r].classification_result, now)], keep)
  /\ UNCHANGED <<GEMINI_API_KEY, prompt, user_responses, current_question, adminVars,
                 broadcast, appends>>

\* (variant) the record is appended twice.
AppendRecord_Twice(r, keep) ==
  /\ pc[r] = "append"
  /\ user_responses' = user_responses \o <<frame[r].new_response, frame[r].new_response>>
  /\ appends' = [appends EXCEPT ![r] = @ + 1]
  /\ Goto(r, "emit", frame[r], keep)
  /\ UNCHANGED <<GEMINI_API_KEY, prompt, current_question, adminVars, broadcast>>

\* (variant) user_responses.insert(0, new_response)
AppendRecord_AtFront(r, keep) ==
  /\ pc[r] = "append"
  /\ user_responses' = <<frame[r].new_response>> \o user_responses
  /\ appends' = [appends EXCEPT ![r] = @ + 1]
  /\ Goto(r, "emit", frame[r], keep)
  /\ UNCHANGED <<GEMINI_API_KEY, prompt, current_question, adminVars, broadcast>>

\* Line 145: user_responses.append(new_response)
AppendRecord(r, keep) ==
  /\ pc[r] = "append"
  /\ user_responses' = Append(user_responses, frame[r].new_response)
  /\ appends' = [appends EXCEPT ![r] = @ + 1]
  /\ Goto(r, "emit", frame[r], keep)
  /\ UNCHANGED <<GEMINI_API_KEY, prompt, current_question, adminVars, broadcast>>

\* Lines 146-150: the state is broadcast and the result returned with 200.
EmitAndReturn(r, keep) ==
  /\ pc[r] = "emit"
  /\ broadcast' = StateUpdate(current_question, user_responses)
  /\ Return(r, Http(200, ""), frame[r], keep)
  /\ UNCHANGED <<GEMINI_API_KEY, prompt, user_responses, current_question, adminVars,
                 appends>>

\* ------------------------------------------------- login and admin events
\* POST /login
handle_login(s, username, password) ==
  /\ logged_in' = IF username = ADMIN_USERNAME /\ password = ADMIN_PASSWORD
                  THEN [logged_in EXCEPT ![s] = TRUE]
                  ELSE logged_in
  /\ UNCHANGED <<GEMINI_API_KEY, prompt, user_responses, current_question, admin_pc,
                 broadcast, reqVars>>

\* GET /logout
logout(s) ==
  /\ logged_in' = [logged_in EXCEPT ![s] = FALSE]
  /\ UNCHANGED <<GEMINI_API_KEY, prompt, user_responses, current_question, admin_pc,
                 broadcast, reqVars>>

\* (variant) set_question without the session check.
handle_set_question_NoLogin(s, question_text) ==
  /\ admin_pc[s] = "idle"
  /\ IF question_text.t = "str" /\ question_text.s # ""
     THEN /\ current_question' = question_text.s
          /\ admin_pc' = [admin_pc EXCEPT ![s] = "set_question_emit"]
     ELSE UNCHANGED <<current_question, admin_pc>>
  /\ UNCHANGED <<GEMINI_API_KEY, prompt, user_responses, logged_in, broadcast, reqVars>>

\* 'set_question', lines 88-92: the question is replaced ...
handle_set_question(s, question_text) ==
  /\ admin_pc[s] = "idle"
  /\ IF logged_in[s] /\ question_text.t = "str" /\ question_text.s # ""
     THEN /\ current_question' = question_text.s
          /\ admin_pc' = [admin_pc EXCEPT ![s] = "set_question_emit"]
     ELSE UNCHANGED <<current_question, admin_pc>>
  /\ UNCHANGED <<GEMINI_API_KEY, prompt, user_responses, logged_in, broadcast, reqVars>>

\* ... line 94: and broadcast.
set_question_emit(s) ==
  /\ admin_pc[s] = "set_question_emit"
  /\ broadcast' = StateUpdate(current_question, user_responses)
  /\ admin_pc' = [admin_pc EXCEPT ![s] = "idle"]
  /\ UNCHANGED <<GEMINI_API_KEY, prompt, user_responses, current_question, logged_in,
                 reqVars>>

\* (variant) the reset drops the oldest record only.
handle_clear_data_DropsOldest(s) ==
  /\ admin_pc[s] = "idle"
  /\ IF logged_in[s]
     THEN /\ user_responses' = IF user_responses = <<>> THEN <<>> ELSE Tail(user_responses)
          /\ admin_pc' = [admin_pc EXCEPT ![s] = "clear_emit"]
     ELSE UNCHANGED <<user_responses, admin_pc>>
  /\ UNCHANGED <<GEMINI_API_KEY, prompt, current_question, logged_in, broadcast, reqVars>>

\* 'clear_all_data', lines 99-101: the history is replaced by a new list ...
handle_clear_data(s) ==
  /\ admin_pc[s] = "idle"
  /\ IF logged_in[s]
     THEN /\ user_responses' = <<>>
          /\ admin_pc' = [admin_pc EXCEPT ![s] = "clear_emit"]
     ELSE UNCHANGED <<user_responses, admin_pc>>
  /\ UNCHANGED <<GEMINI_API_KEY, prompt, current_question, logged_in, broadcast, reqVars>>

\* ... line 103: and the empty state broadcast.
clear_emit(s) ==
  /\ admin_pc[s] = "clear_emit"
  /\ broadcast' = StateUpdate(current_question, <<>>)
  /\ admin_pc' = [admin_pc EXCEPT ![s] = "idle"]
  /\ UNCHANGED <<GEMINI_API_KEY, prompt, user_responses, current_question, logged_in,
                 reqVars>>

\* ----------------------------------------------------------------- Next
\* Requests, logins and admin events interleave; the locals of a finished
\* request are gone.
Next ==
  \/ \E r \in Reqs, answer \in Answers : Receive(r, answer, FALSE)
  \/ \E r \in Reqs : ReadTaxonomy(r, FALSE)
  \/ \E r \in Reqs : CallLLM(r, FALSE)
  \/ \E r \in Reqs, env \in Responses : Respond(r, env, FALSE)
  \/ \E r \in Reqs, now \in Times : BuildRecord(r, now, FALSE)
  \/ \E r \in Reqs : AppendRecord(r, FALSE)
  \/ \E r \in Reqs : EmitAndReturn(r, FALSE)
  \/ \E s \in Sessions, u \in Usernames, p \in Passwords : handle_login(s, u, p)
  \/ \E s \in Sessions : logout(s)
  \/ \E s \in Sessions, q \in QuestionInputs : handle_set_question(s, q)
  \/ \E s \in Sessions : set_question_emit(s)
  \/ \E s \in Sessions : handle_clear_data(s)
  \/ \E s \in Sessions : clear_emit(s)

Spec == Init /\ [][Next]_vars

\* The threads are scheduled: a handler that can take its next statement
\* takes it.  requests.post is called without a timeout, so a request that
\* waits for the endpoint goes on only when the endpoint answers or the
\* transport fails (Respond), which nothing obliges to happen.
Fairness ==
  /\ \A r \in Reqs :
       /\ WF_vars(ReadTaxonomy(r, FALSE))
       /\ WF_vars(CallLLM(r, FALSE))
       /\ WF_vars(\E now \in Times : BuildRecord(r, now, FALSE))
       /\ WF_vars(AppendRecord(r, FALSE))
       /\ WF_vars(EmitAndReturn(r, FALSE))
  /\ \A s \in Sessions :
       /\ WF_vars(set_question_emit(s))
       /\ WF_vars(clear_emit(s))

SpecLive == Init /\ [][Next]_vars /\ Fairness

\* One request at a time, no admin events, the locals kept: the outcome of
\* a finished request can be compared with what it was given.
Quiet == \A q \in Reqs : pc[q] \in {"idle", "done"}

NextPair ==
  \/ \E r \in Reqs, answer \in AllAnswers : Quiet /\ Receive(r, answer, TRUE)
  \/ \E r \in Reqs : ReadTaxonomy(r, TRUE)
  \/ \E r \in Reqs : CallLLM(r, TRUE)
  \/ \E r \in Reqs, env \in Responses \cup {NoCandidatesKey} : Respond(r, env, TRUE)
  \/ \E r \in Reqs, now \in Times : BuildRecord(r, now, TRUE)
  \/ \E r \in Reqs : AppendRecord(r, TRUE)
  \/ \E r \in Reqs : EmitAndReturn(r, TRUE)

SpecPair == Init /\ [][NextPair]_vars

\* Requests run concurrently with the locals kept and no admin events:
\* what each request read, was answered and appended can be compared.
RaceAnswers   == {JAbsent, JStr("learn how AI reads CT scans")}
RaceResponses ==
  {TransportError} \cup
  {Candidate(Object(JStr(c), JNum(9), JStr(Justification))) : c \in Categories}

NextRace ==
  \/ \E r \in Reqs, answer \in RaceAnswers : Receive(r, answer, TRUE)
  \/ \E r \in Reqs : ReadTaxonomy(r, TRUE)
  \/ \E r \in Reqs : CallLLM(r, TRUE)
  \/ \E r \in Reqs, env \in RaceResponses : Respond(r, env, TRUE)
  \/ \E r \in Reqs, now \in Times : BuildRecord(r, now, TRUE)
  \/ \E r \in Reqs : AppendRecord(r, TRUE)
  \/ \E r \in Reqs : EmitAndReturn(r, TRUE)

SpecRace == Init /\ [][NextRace]_vars

\* The first request alone, given every answer and every response of the
\* endpoint, the locals kept.
NextOne ==
  \/ \E answer \in AllAnswers : Receive(1, answer, TRUE)
  \/ ReadTaxonomy(1, TRUE)
  \/ CallLLM(1, TRUE)
  \/ \E env \in AllEnvelopes : Respond(1, env, TRUE)
  \/ \E now \in Times : BuildRecord(1, now, TRUE)
  \/ AppendRecord(1, TRUE)
  \/ EmitAndReturn(1, TRUE)

SpecOne == Init /\ [][NextOne]_vars

\* ------------------------------------------------ the prompt builder alone
appVars == <<GEMINI_API_KEY, user_responses, current_question, adminVars,
             broadcast, reqVars>>

InitPrompt ==
  /\ GEMINI_API_KEY = TRUE
  /\ user_responses = <<>>
  /\ current_question = DefaultQuestion
  /\ logged_in = [s \in Sessions |-> FALSE]
  /\ admin_pc = [s \in Sessions |-> "idle"]
  /\ broadcast = NoBroadcast
  /\ pc = [r \in Reqs |-> "idle"]
  /\ frame = [r \in Reqs |-> NoFrame]
  /\ outcome = [r \in Reqs |-> NoOutcome]
  /\ appends = [r \in Reqs |-> 0]
  /\ \E a \in PromptAnswers, q \in PromptQuestions, cats \in Snapshots :
       prompt = [NoPrompt EXCEPT !.stage = "input", !.objective = a,
                                 !.question = q, !.existing_categories = cats]

\* get_gemini_api_payload, lines 77-87: the context block is serialised
\* and becomes the text of the payload.
BuildPrompt ==
  /\ prompt.stage = "input"
  /\ prompt' = [prompt EXCEPT !.stage = "built",
                  !.text = user_prompt(prompt.objective, prompt.question,
                                       prompt.existing_categories)]
  /\ UNCHANGED appVars

\* The text of the payload is parsed back.
ParsePrompt ==
  /\ prompt.stage = "built"
  /\ prompt' = [prompt EXCEPT !.stage = "parsed", !.parsed = json_loads(prompt.text)]
  /\ UNCHANGED appVars

NextPrompt == BuildPrompt \/ ParsePrompt

SpecPrompt == InitPrompt /\ [][NextPrompt]_vars

\* ======================================================================
\* Properties
\* ======================================================================
Done(r)      == pc[r] = "done"
Succeeded(r) == Done(r) /\ outcome[r].status = 200
Failed(r)    == Done(r) /\ outcome[r].status # 200
Finishes(r)  == pc[r] # "done" /\ pc'[r] = "done"

\* The request has reached requests.post: its payload went out.
Posted(r) == frame[r].payload # NoPayload

\* The request came with a non-empty text as its answer.
ProperAnswer(r) == frame[r].data.t = "str" /\ frame[r].data.s # ""

\* The spec's failure kinds, told from what a request was given.
MissingOrEmpty(answer) == answer.t = "absent" \/ (answer.t = "str" /\ answer.s = "")
EmptyResponse(env) ==
  \/ env.kind = "empty_candidates"
  \/ env.kind = "candidate" /\ env.text.form = "empty"

WellTyped(txt) ==
  /\ txt.form = "object"
  /\ txt.primaryDomain.t = "str"
  /\ txt.confidenceScore.t = "num"
  /\ txt.justification.t = "str"
InRange(txt) == txt.confidenceScore.n >= 0 /\ txt.confidenceScore.n <= 10
\* Malformed JSON, a missing field, a field of the wrong primitive type or
\* a confidenceScore outside [0.0, 1.0].
SchemaViolating(env) ==
  /\ env.kind = "candidate"
  /\ env.text.form \in {"malformed", "object"}
  /\ ~(WellTyped(env.text) /\ InRange(env.text))

\* Each kind is told by its plainest trigger: no 'answer' at all; a
\* transport failure; the text ""; an object that breaks the contract.
FailureKind(f) ==
  IF f.data.t = "absent" THEN "InvalidInputError"
  ELSE IF f.data.t # "str" \/ f.data.s = "" THEN "none"
  ELSE IF f.response.kind = "transport_error" THEN "CommunicationError"
  ELSE IF f.response.kind = "candidate" /\ f.response.text.form = "empty"
       THEN "EmptyModelOutputError"
  ELSE IF SchemaViolating(f.response) /\ f.response.text.form = "object"
       THEN "SchemaViolationError"
  ELSE "none"

EmptyModelOutputError ==
  [type |-> "RuntimeError", msg |-> "AI model did not return valid classification content."]
SchemaViolationError ==
  [type |-> "RuntimeError", msg |-> "AI output failed schema validation."]

Validated(c) ==
  /\ c.primaryDomain # ""
  /\ c.justification # ""
  /\ c.confidenceScore \in 0..10

IsPrefix(a, b) == Len(a) <= Len(b) /\ a = SubSeq(b, 1, Len(a))
Range(q) == {q[i] : i \in 1..Len(q)}
PrimaryDomains(history) == {history[i].classification.primaryDomain : i \in 1..Len(history)}

\* C1: a request that ended in a failure outcome (anything but 200) has
\* appended no record to the history, whatever the other requests and the
\* admin did meanwhile.  (Spec)
C1_FailureNeverMutatesHistory ==
  \A r \in Reqs : Failed(r) => appends[r] = 0

\* A request has failed with 500 while the history holds another's record.
C1_Witness ==
  \E r \in Reqs : Failed(r) /\ outcome[r].status = 500 /\ Len(user_responses) > 0

\* C2: a request whose answer is missing or the empty string never reaches
\* the outbound call to the LLM endpoint.  (SpecOne)
C2_EmptyAnswerNeverPosted ==
  \A r \in Reqs : MissingOrEmpty(frame[r].data) => ~Posted(r)

\* C3: two requests that failed with different failure kinds were given
\* different outcomes.  (SpecPair)
C3_FailureKindsDistinct ==
  \A r1, r2 \in Reqs :
     ( /\ GEMINI_API_KEY /\ Failed(r1) /\ Failed(r2)
       /\ FailureKind(frame[r1]) # "none" /\ FailureKind(frame[r2]) # "none"
       /\ FailureKind(frame[r1]) # FailureKind(frame[r2]) )
     => outcome[r1] # outcome[r2]

\* C4: every record in the history, and every record in a broadcast
\* state_update, carries a validated classification: the three fields are
\* there and confidenceScore is within [0.0, 1.0].  (Spec)
C4_HistoryHoldsValidatedRecords ==
  /\ \A rec \in Range(user_responses) : Validated(rec.classification)
  /\ \A rec \in Range(broadcast.responses) : Validated(rec.classification)

\* A record is in the history and has been broadcast.
C4_Witness ==
  Len(user_responses) > 0 /\ Len(broadcast.responses) > 0

\* C5: when the endpoint's response to a proper request is empty
\* (candidates is an empty array, or the text is the empty string) the
\* request fails with the one empty-output error and appends nothing.
\* (SpecOne)
C5_EmptyResponseOneError ==
  \A r \in Reqs :
     (Done(r) /\ ProperAnswer(r) /\ EmptyResponse(frame[r].response))
     => /\ frame[r].raised = EmptyModelOutputError
        /\ appends[r] = 0 /\ user_responses = <<>>

\* C6: a payload that is malformed, lacks a field, has a field of the wrong
\* primitive type or a confidenceScore out of range is rejected with the
\* schema-violation error; a well-typed payload in range is accepted.
\* (SpecOne)
C6_ValidatorRejectsViolations ==
  \A r \in Reqs :
     LET env == frame[r].response
     IN /\ (Done(r) /\ ProperAnswer(r) /\ SchemaViolating(env))
             => frame[r].raised = SchemaViolationError
        /\ (Done(r) /\ ProperAnswer(r) /\ env.kind = "candidate"
               /\ WellTyped(env.text) /\ InRange(env.text))
             => Succeeded(r)

\* C7: an accepted result has the payload's own values: every field of the
\* payload had the field's primitive type (nothing coerced, nothing
\* defaulted) and the result repeats it.  (SpecOne)
C7_NoRepair ==
  \A r \in Reqs :
     LET txt == frame[r].response.text
         res == frame[r].classification_result
     IN (Succeeded(r) /\ ProperAnswer(r)) =>
          /\ WellTyped(txt)
          /\ res.primaryDomain = txt.primaryDomain.s
          /\ res.confidenceScore = txt.confidenceScore.n
          /\ res.justification = txt.justification.s

\* C8: a request that returns 200 has appended exactly one record, and
\* the step that appends makes the history exactly one record longer.
\* (Spec)
C8_OneRecordPerSuccess ==
  [][\A r \in Reqs :
       /\ (Finishes(r) /\ outcome'[r].status = 200) => appends'[r] = 1
       /\ appends'[r] # appends[r] =>
            /\ appends'[r] = appends[r] + 1
            /\ Len(user_responses') = Len(user_responses) + 1]_vars

\* Two requests have both succeeded.
C8_Witness ==
  \E r1, r2 \in Reqs : r1 # r2 /\ Succeeded(r1) /\ Succeeded(r2)

\* C9: a step either leaves every record of the history as and where it
\* is (records are only added at the end), or it is the clear operation
\* and leaves the history empty.  (Spec)
C9_AppendOnlyUntilClear ==
  [][\/ IsPrefix(user_responses, user_responses')
     \/ /\ user_responses' = <<>>
        /\ \E s \in Sessions : logged_in[s] /\ admin_pc'[s] = "clear_emit"]_vars

\* The history was cleared after a success and holds a later record.
C9_Witness ==
  /\ Len(user_responses) = 1
  /\ \E r1, r2 \in Reqs : r1 # r2 /\ Succeeded(r1) /\ Succeeded(r2)

\* C10: the category list a request reads is the set of primaryDomain
\* values of the history at that moment, each once, and it is the list
\* posted to the LLM.  (Spec)
C10_LiveSnapshot ==
  [][\A r \in Reqs :
       /\ (pc[r] = "read" /\ pc'[r] = "call") =>
            LET cats == frame'[r].existing_categories
            IN /\ Range(cats) = PrimaryDomains(user_responses)
               /\ Cardinality(Range(cats)) = Len(cats)
       /\ (pc[r] = "call" /\ pc'[r] = "awaiting") =>
            frame'[r].payload.existing_categories = frame[r].existing_categories]_vars

\* A request was posted with a category another request's record brought.
C10_Witness ==
  \E r \in Reqs : pc[r] = "awaiting" /\ frame[r].payload.existing_categories # <<>>

\* C11: the reset step of a logged-in session leaves the history empty
\* whatever it held (also when it was empty already, so a second reset in
\* a row does the same and changes nothing else), it is never blocked, and
\* a category list read while the history is empty is empty.  (Spec)
ClearStep(s) == admin_pc[s] = "idle" /\ admin_pc'[s] = "clear_emit"
C11_ResetEmptiesHistory ==
  [][/\ \A s \in Sessions :
          /\ ClearStep(s) =>
               /\ user_responses' = <<>>
               /\ UNCHANGED <<current_question, broadcast, reqVars, logged_in>>
          /\ (logged_in[s] /\ admin_pc[s] = "idle") => ENABLED handle_clear_data(s)
     /\ \A r \in Reqs :
          (pc[r] = "read" /\ pc'[r] = "call" /\ user_responses = <<>>)
             => frame'[r].existing_categories = <<>>]_vars

\* A second reset in a row: no request was ever received, the first
\* reset's empty state has been broadcast and the session has reset again.
C11_Witness ==
  /\ \A r \in Reqs : pc[r] = "idle"
  /\ broadcast = StateUpdate(DefaultQuestion, <<>>)
  /\ \E s \in Sessions : admin_pc[s] = "clear_emit" /\ user_responses = <<>>

\* C17: the identifiers of the records in the history are pairwise
\* distinct.  (Spec)
C17_IdsDistinct ==
  \A i, j \in 1..Len(user_responses) :
     i # j => user_responses[i].id # user_responses[j].id

\* C18: once no request and no admin event is in flight, the state_update
\* broadcast last is the history and the question as they are.  (Spec)
AdminIdle == \A s \in Sessions : admin_pc[s] = "idle"
C18_LastBroadcastIsCurrent ==
  (Quiet /\ AdminIdle /\ broadcast # NoBroadcast)
     => broadcast = StateUpdate(current_question, user_responses)

\* C19: a set_question or clear_all_data event from a session that is not
\* logged in changes nothing (question, history, broadcast or anything
\* else), and neither does a set_question without a question text from any
\* session.  (Spec)
C19_NotLoggedInNoEffect ==
  \A s \in Sessions :
     /\ (~logged_in[s] /\ admin_pc[s] = "idle") =>
          /\ ~ENABLED (handle_clear_data(s) /\ vars' # vars)
          /\ \A q \in QuestionInputs :
                ~ENABLED (handle_set_question(s, q) /\ vars' # vars)
     /\ admin_pc[s] = "idle" =>
          \A q \in {JAbsent, JStr("")} :
             ~ENABLED (handle_set_question(s, q) /\ vars' # vars)

\* A session that has logged out faces a changed question and a history
\* with a record in it.
C19_Witness ==
  \E s \in Sessions :
     /\ ~logged_in[s] /\ admin_pc[s] = "idle"
     /\ current_question # DefaultQuestion
     /\ user_responses # <<>>

\* C14: every classification request that was received comes to an end
\* (the wait for the endpoint is bounded by a timeout).  (SpecLive)
C14_EveryRequestTerminates ==
  \A r \in Reqs : (pc[r] # "idle") ~> (pc[r] = "done")

\* C12: nothing serialises the read-then-append sequence: a request that
\* is at its taxonomy read, its call, its record or its append can take
\* that step wherever the other requests are; so two requests that both
\* read an empty taxonomy and were given different category names both
\* append (C12_Witness).  (SpecRace)
C12_RaceNotPrevented ==
  \A r \in Reqs :
     /\ pc[r] = "read"   => ENABLED ReadTaxonomy(r, TRUE)
     /\ pc[r] = "call"   => ENABLED CallLLM(r, TRUE)
     /\ pc[r] = "build"  => ENABLED (\E now \in Times : BuildRecord(r, now, TRUE))
     /\ pc[r] = "append" => ENABLED AppendRecord(r, TRUE)

\* Two requests read the empty taxonomy, were given different category
\* names, both returned 200 and both records are in the history.
C12_Witness ==
  \E r1, r2 \in Reqs :
     /\ r1 # r2 /\ Succeeded(r1) /\ Succeeded(r2)
     /\ frame[r1].payload.existing_categories = <<>>
     /\ frame[r2].payload.existing_categories = <<>>
     /\ frame[r1].classification_result.primaryDomain
          # frame[r2].classification_result.primaryDomain
     /\ {frame[r1].new_response, frame[r2].new_response} \subseteq Range(user_responses)
     /\ Cardinality(PrimaryDomains(user_responses)) = 2

\* C13: the step that appends a record stores the primaryDomain the
\* endpoint returned, as it is, and changes the taxonomy T to
\* T \cup {primaryDomain}: unchanged when the name is in T already, one
\* larger otherwise.  (SpecRace)
C13_TaxonomyGrowsByTheRecord ==
  [][\A r \in Reqs :
       appends'[r] # appends[r] =>
         LET rec  == user_responses'[Len(user_responses')]
             name == frame[r].response.text.primaryDomain.s
             T    == PrimaryDomains(user_responses)
             Tnew == PrimaryDomains(user_responses')
         IN /\ rec.classification.primaryDomain = name
            /\ Tnew = T \cup {name}
            /\ name \in T => Cardinality(Tnew) = Cardinality(T)
            /\ Cardinality(Tnew) <= Cardinality(T) + 1]_vars

\* A request that was posted with the taxonomy <<"Oncology">> was answered
\* "Oncology"; its record is the second one and the taxonomy has one name.
C13_Witness ==
  \E r \in Reqs :
     /\ Succeeded(r)
     /\ frame[r].payload.existing_categories = <<"Oncology">>
     /\ frame[r].classification_result.primaryDomain = "Oncology"
     /\ Len(user_responses) = 2 /\ user_responses[2] = frame[r].new_response
     /\ PrimaryDomains(user_responses) = {"Oncology"}

\* C15: the schema attached to every posted payload has the properties
\* primaryDomain, confidenceScore, justification in this order, with the
\* type tags STRING, NUMBER, STRING, all three required, and
\* propertyOrdering the same order; any two posted payloads carry the
\* same schema.  (SpecRace)
FieldOrder == <<"primaryDomain", "confidenceScore", "justification">>
C15_SchemaShape ==
  \A r \in Reqs :
     Posted(r) =>
       LET sc == frame[r].payload.responseSchema
       IN /\ sc.type = "OBJECT"
          /\ [i \in 1..Len(sc.properties) |-> sc.properties[i].name] = FieldOrder
          /\ [i \in 1..Len(sc.properties) |-> sc.properties[i].type]
               = <<"STRING", "NUMBER", "STRING">>
          /\ Range(sc.required) = Range(FieldOrder)
          /\ sc.propertyOrdering = FieldOrder
          /\ \A q \in Reqs : Posted(q) => frame[q].payload.responseSchema = sc

\* Two payloads were posted, built from different category lists.
C15_Witness ==
  \E r1, r2 \in Reqs :
     /\ Posted(r1) /\ Posted(r2)
     /\ frame[r1].payload.existing_categories # frame[r2].payload.existing_categories

\* C16: the context block, parsed back, is an object with the three keys
\* whose values are the answer, the question and the category list that
\* were given, character for character.  (SpecPrompt)
C16_PromptRoundTrip ==
  prompt.stage = "parsed" =>
    /\ prompt.parsed.ok
    /\ prompt.parsed.keys = <<KeyUserAnswer, KeyQuestion, KeyCategories>>
    /\ prompt.parsed.user_answer = prompt.objective
    /\ prompt.parsed.question = prompt.question
    /\ prompt.parsed.existing_categories = prompt.existing_categories
    /\ Range(prompt.parsed.existing_categories) = Range(prompt.existing_categories)

\* A block was parsed back whose answer holds a quote and a backslash,
\* whose question is a newline and whose snapshot holds all the names.
C16_Witness ==
  /\ prompt.stage = "parsed"
  /\ prompt.objective = <<DQ, BS>>
  /\ prompt.question = <<LF>>
  /\ prompt.existing_categories = CategoryPool

====
